---- MODULE Spec2Model ----
(***************************************************************************)
(* Distributor permission system (src/main.go): a catalog of region codes, *)
(* a graph of distributors with include/exclude rule sets and optional     *)
(* parents, and the facade operations AddDistributor, AddPermission and    *)
(* CheckPermission over them.                                              *)
(*                                                                         *)
(* A Go string that the program splits or joins is a sequence of           *)
(* one-character strings, so strings.Split and fmt.Sprintf are computed.   *)
(* Distributor names are never taken apart and stay TLA+ strings.          *)
(***************************************************************************)
EXTENDS Integers, Sequences, FiniteSets, TLC

VARIABLES distributors, call, result

vars == <<distributors, call, result>>

(***************************************************************************)
(* Bounds of the model.                                                    *)
(***************************************************************************)
\* how many rules (include plus exclude, over all distributors) are stored
MaxRules == 3
\* longest candidate segment list handed to isSubregion on its own
MaxCandLen == 3
\* longest pattern segment list handed to isSubregion on its own
MaxPatLen == 4

(***************************************************************************)
(* Strings.                                                                *)
(***************************************************************************)
HYPHEN == "-"

US == <<"U", "S">>
FR == <<"F", "R">>
NY == <<"N", "Y">>
CA == <<"C", "A">>
IDF == <<"I", "D", "F">>
NYC == <<"N", "Y", "C">>
LA == <<"L", "A">>
PAR == <<"P", "A", "R">>
XX == <<"X", "X">>

\* fmt.Sprintf("%s-%s", a, b)
Sprintf2(a, b) == a \o <<HYPHEN>> \o b

\* fmt.Sprintf("%s-%s-%s", a, b, c)
Sprintf3(a, b, c) == a \o <<HYPHEN>> \o b \o <<HYPHEN>> \o c

\* strings.Index(s, sep) for a one-character sep, 1-based; 0 when absent
Index(s, sep) ==
    IF \E i \in 1..Len(s) : s[i] = sep
    THEN CHOOSE i \in 1..Len(s) : s[i] = sep /\ \A j \in 1..(i - 1) : s[j] # sep
    ELSE 0

\* strings.Split(s, sep) for a one-character sep, computed: never empty, ""
\* gives <<"">>
RECURSIVE SplitScan(_, _)
SplitScan(s, sep) ==
    LET i == Index(s, sep) IN
    IF i = 0 THEN <<s>>
    ELSE <<SubSeq(s, 1, i - 1)>> \o SplitScan(SubSeq(s, i + 1, Len(s)), sep)

(***************************************************************************)
(* The region catalog: ds.locations after LoadLocationData.                *)
(***************************************************************************)
\* the data rows of the CSV file, in file order; the short row is malformed
Records ==
    << <<NYC, NY, US, "New York City", "New York", "United States">>,
       <<LA, CA, US, "Los Angeles", "California", "United States">>,
       <<PAR, IDF>>,
       <<PAR, IDF, FR, "Paris", "Ile-de-France", "France">> >>

Location(record) ==
    [CityCode |-> record[1], ProvinceCode |-> record[2], CountryCode |-> record[3],
     CityName |-> record[4], ProvinceName |-> record[5], CountryName |-> record[6]]

\* m[k] = v on a Go map
MapPut(m, k, v) == [x \in DOMAIN m \cup {k} |-> IF x = k THEN v ELSE m[x]]

RECURSIVE LoadLocationData(_, _)
LoadLocationData(locs, records) ==
    IF records = <<>> THEN locs
    ELSE LET record == Head(records) IN
         IF Len(record) >= 6
         THEN LET location == Location(record)
                  cityKey == Sprintf3(location.CityCode, location.ProvinceCode,
                                      location.CountryCode)
                  provinceKey == Sprintf2(location.ProvinceCode, location.CountryCode)
                  countryKey == location.CountryCode
              IN LoadLocationData(
                     MapPut(MapPut(MapPut(locs, cityKey, location),
                                   provinceKey, location),
                            countryKey, location),
                     Tail(records))
         ELSE LoadLocationData(locs, Tail(records))

locations == LoadLocationData(<<>>, Records)

\* DistributionSystem.ValidateRegion
ValidateRegion(region) == region \in DOMAIN locations

(***************************************************************************)
(* Inputs of the facade calls.                                             *)
(***************************************************************************)
\* a nil *Distributor
NIL == "<nil>"

\* distributor names passed by callers; "" is a name the facade accepts
NameInputs == {"A", "B", ""}

\* parent names passed by callers; "" means no parent
ParentInputs == NameInputs \cup {""}

\* region codes passed to AddPermission: a country, a province of it, a
\* second country and a code the catalog does not have
RuleRegions == {US, Sprintf2(CA, US), FR, XX}

\* region codes passed to CheckPermission: one of the catalog, one not
CheckRegions == {Sprintf2(CA, US), XX}

\* region codes the properties of HasPermission are evaluated on: the whole
\* catalog and two codes it does not have
QueryRegions == DOMAIN locations \cup {XX, Sprintf2(LA, US)}

\* strings.Split(s, "-") of every code the callers pass, computed once
SplitTable == [s \in QueryRegions \cup RuleRegions \cup CheckRegions |-> SplitScan(s, HYPHEN)]

\* strings.Split(s, sep): read from the table for a code it holds, computed
\* for any other string
Split(s, sep) ==
    IF sep = HYPHEN /\ s \in DOMAIN SplitTable THEN SplitTable[s] ELSE SplitScan(s, sep)

(***************************************************************************)
(* The distributors.                                                       *)
(***************************************************************************)
\* NewDistributor; Parent is a name of the graph or NIL
NewDistributor(name, parent) ==
    [Name |-> name, Parent |-> parent, Includes |-> {}, Excludes |-> {}]

\* isSubregion comparing a province pattern with the first two segments of
\* the candidate instead of the last two
isSubregionFirstTwo(region1, region2) ==
    IF Len(region2) = 1
    THEN region1[Len(region1)] = region2[1]
    ELSE IF Len(region2) = 2
    THEN /\ Len(region1) >= 2
         /\ region1[1] = region2[1]
         /\ region1[2] = region2[2]
    ELSE IF Len(region2) = 3
    THEN /\ Len(region1) = 3
         /\ region1[1] = region2[1]
         /\ region1[2] = region2[2]
         /\ region1[3] = region2[3]
    ELSE FALSE

\* isSubregion(region1, region2 []string); Go indexes from 0
isSubregion(region1, region2) ==
    IF Len(region2) = 1
    THEN region1[Len(region1)] = region2[1]
    ELSE IF Len(region2) = 2
    THEN /\ Len(region1) >= 2
         /\ region1[Len(region1) - 1] = region2[1]
         /\ region1[Len(region1)] = region2[2]
    ELSE IF Len(region2) = 3
    THEN /\ Len(region1) = 3
         /\ region1[1] = region2[1]
         /\ region1[2] = region2[2]
         /\ region1[3] = region2[3]
    ELSE FALSE

\* Distributor.HasPermission on distributor d of graph ds.  Both loops return
\* the same value for whichever element matches first, so the order in which
\* Go ranges over the maps does not show in the result.
RECURSIVE HasPermission(_, _, _)

\* HasPermission returning true on an include match without asking the parent
HasPermissionNoParent(ds, d, region) ==
    LET parts == Split(region, HYPHEN) IN
    IF \E excluded \in ds[d].Excludes : isSubregion(parts, Split(excluded, HYPHEN))
    THEN FALSE
    ELSE \E included \in ds[d].Includes : isSubregion(parts, Split(included, HYPHEN))

\* HasPermission falling back to the parent when no include rule matches
HasPermissionInherit(ds, d, region) ==
    LET parts == Split(region, HYPHEN) IN
    IF \E excluded \in ds[d].Excludes : isSubregion(parts, Split(excluded, HYPHEN))
    THEN FALSE
    ELSE IF ds[d].Parent # NIL
    THEN HasPermission(ds, ds[d].Parent, region)
    ELSE \E included \in ds[d].Includes : isSubregion(parts, Split(included, HYPHEN))

\* HasPermission testing the exclude pattern inside the region, arguments swapped
HasPermissionSwapped(ds, d, region) ==
    LET parts == Split(region, HYPHEN) IN
    IF \E excluded \in ds[d].Excludes : isSubregion(Split(excluded, HYPHEN), parts)
    THEN FALSE
    ELSE IF \E included \in ds[d].Includes : isSubregion(parts, Split(included, HYPHEN))
    THEN IF ds[d].Parent # NIL
         THEN HasPermission(ds, ds[d].Parent, region)
         ELSE TRUE
    ELSE FALSE

HasPermission(ds, d, region) ==
    LET parts == Split(region, HYPHEN) IN
    IF \E excluded \in ds[d].Excludes : isSubregion(parts, Split(excluded, HYPHEN))
    THEN FALSE
    ELSE IF \E included \in ds[d].Includes : isSubregion(parts, Split(included, HYPHEN))
    THEN IF ds[d].Parent # NIL
         THEN HasPermission(ds, ds[d].Parent, region)
         ELSE TRUE
    ELSE FALSE

\* the error values, by the text of their messages
ErrNone == "nil"
ErrDuplicate == "distributor already exists"
ErrUnknownParent == "parent distributor does not exist"
ErrUnknownDistributor == "distributor does not exist"
ErrUnknownRegion == "invalid region code"
ErrParentDenial == "parent distributor does not have permission for"

\* Distributor.AddPermission without the parent check
Distributor_AddPermissionNoCheck(ds, d, permission, isInclude) ==
    [err |-> ErrNone,
     ds |-> IF isInclude
            THEN [ds EXCEPT ![d].Includes = @ \cup {permission}]
            ELSE [ds EXCEPT ![d].Excludes = @ \cup {permission}],
     evaluated |-> FALSE]

\* Distributor.AddPermission asking the parent for include rules only
Distributor_AddPermissionIncludeOnly(ds, d, permission, isInclude) ==
    IF isInclude /\ ds[d].Parent # NIL /\ ~HasPermission(ds, ds[d].Parent, permission)
    THEN [err |-> ErrParentDenial, ds |-> ds, evaluated |-> TRUE]
    ELSE [err |-> ErrNone,
          ds |-> IF isInclude
                 THEN [ds EXCEPT ![d].Includes = @ \cup {permission}]
                 ELSE [ds EXCEPT ![d].Excludes = @ \cup {permission}],
          evaluated |-> isInclude /\ ds[d].Parent # NIL]

\* Distributor.AddPermission inserting the rule before it asks the parent
Distributor_AddPermissionInsertFirst(ds, d, permission, isInclude) ==
    LET after == IF isInclude
                 THEN [ds EXCEPT ![d].Includes = @ \cup {permission}]
                 ELSE [ds EXCEPT ![d].Excludes = @ \cup {permission}]
    IN IF ds[d].Parent # NIL /\ ~HasPermission(ds, ds[d].Parent, permission)
       THEN [err |-> ErrParentDenial, ds |-> after, evaluated |-> TRUE]
       ELSE [err |-> ErrNone, ds |-> after, evaluated |-> ds[d].Parent # NIL]

\* Distributor.AddPermission refusing what the parent is authorized for: the
\* negation of the test dropped
Distributor_AddPermissionInverted(ds, d, permission, isInclude) ==
    IF ds[d].Parent # NIL /\ HasPermission(ds, ds[d].Parent, permission)
    THEN [err |-> ErrParentDenial, ds |-> ds, evaluated |-> TRUE]
    ELSE [err |-> ErrNone,
          ds |-> IF isInclude
                 THEN [ds EXCEPT ![d].Includes = @ \cup {permission}]
                 ELSE [ds EXCEPT ![d].Excludes = @ \cup {permission}],
          evaluated |-> ds[d].Parent # NIL]

\* Distributor.AddPermission on distributor d of graph ds: the error, the
\* graph afterwards, and whether HasPermission was evaluated
Distributor_AddPermission(ds, d, permission, isInclude) ==
    IF ds[d].Parent # NIL /\ ~HasPermission(ds, ds[d].Parent, permission)
    THEN [err |-> ErrParentDenial, ds |-> ds, evaluated |-> TRUE]
    ELSE [err |-> ErrNone,
          ds |-> IF isInclude
                 THEN [ds EXCEPT ![d].Includes = @ \cup {permission}]
                 ELSE [ds EXCEPT ![d].Excludes = @ \cup {permission}],
          evaluated |-> ds[d].Parent # NIL]

\* number of rules stored in graph ds
RECURSIVE TotalRules(_, _)
TotalRules(ds, names) ==
    IF names = {} THEN 0
    ELSE LET n == CHOOSE x \in names : TRUE IN
         Cardinality(ds[n].Includes) + Cardinality(ds[n].Excludes)
             + TotalRules(ds, names \ {n})

(***************************************************************************)
(* The calls.  call is the last call made with its arguments; result is    *)
(* what it returned (err, value) and whether it evaluated HasPermission.   *)
(***************************************************************************)
NoCall ==
    [op |-> "none", name |-> "", parentName |-> "", region |-> <<>>,
     isInclude |-> FALSE, region1 |-> <<>>, region2 |-> <<>>]

Result(err, value, evaluated) == [err |-> err, value |-> value, evaluated |-> evaluated]

\* NewDistributionSystem, with the catalog loaded
Init ==
    /\ distributors = <<>>
    /\ call = NoCall
    /\ result = Result(ErrNone, FALSE, FALSE)

\* AddDistributor looking the parent up before the name
AddDistributorParentFirst(name, parentName) ==
    /\ call' = [NoCall EXCEPT !.op = "AddDistributor", !.name = name,
                              !.parentName = parentName]
    /\ IF parentName # "" /\ parentName \notin DOMAIN distributors
       THEN /\ result' = Result(ErrUnknownParent, FALSE, FALSE)
            /\ UNCHANGED distributors
       ELSE IF name \in DOMAIN distributors
       THEN /\ result' = Result(ErrDuplicate, FALSE, FALSE)
            /\ UNCHANGED distributors
       ELSE /\ distributors' =
                   MapPut(distributors, name,
                          NewDistributor(name, IF parentName # "" THEN parentName ELSE NIL))
            /\ result' = Result(ErrNone, FALSE, FALSE)

\* AddDistributor without the test for a name already taken
AddDistributorNoDuplicateCheck(name, parentName) ==
    /\ call' = [NoCall EXCEPT !.op = "AddDistributor", !.name = name,
                              !.parentName = parentName]
    /\ IF parentName # "" /\ parentName \notin DOMAIN distributors
       THEN /\ result' = Result(ErrUnknownParent, FALSE, FALSE)
            /\ UNCHANGED distributors
       ELSE /\ distributors' =
                   MapPut(distributors, name,
                          NewDistributor(name, IF parentName # "" THEN parentName ELSE NIL))
            /\ result' = Result(ErrNone, FALSE, FALSE)

\* DistributionSystem.AddDistributor
AddDistributor(name, parentName) ==
    /\ call' = [NoCall EXCEPT !.op = "AddDistributor", !.name = name,
                              !.parentName = parentName]
    /\ IF name \in DOMAIN distributors
       THEN /\ result' = Result(ErrDuplicate, FALSE, FALSE)
            /\ UNCHANGED distributors
       ELSE IF parentName # "" /\ parentName \notin DOMAIN distributors
       THEN /\ result' = Result(ErrUnknownParent, FALSE, FALSE)
            /\ UNCHANGED distributors
       ELSE /\ distributors' =
                   MapPut(distributors, name,
                          NewDistributor(name, IF parentName # "" THEN parentName ELSE NIL))
            /\ result' = Result(ErrNone, FALSE, FALSE)

\* DistributionSystem.AddPermission
AddPermission(distributorName, region, isInclude) ==
    /\ call' = [NoCall EXCEPT !.op = "AddPermission", !.name = distributorName,
                              !.region = region, !.isInclude = isInclude]
    /\ IF distributorName \notin DOMAIN distributors
       THEN /\ result' = Result(ErrUnknownDistributor, FALSE, FALSE)
            /\ UNCHANGED distributors
       ELSE IF ~ValidateRegion(region)
       THEN /\ result' = Result(ErrUnknownRegion, FALSE, FALSE)
            /\ UNCHANGED distributors
       ELSE LET r == Distributor_AddPermission(distributors, distributorName,
                                               region, isInclude) IN
            /\ TotalRules(r.ds, DOMAIN r.ds) <= MaxRules
            /\ distributors' = r.ds
            /\ result' = Result(r.err, FALSE, r.evaluated)

\* CheckPermission without the ValidateRegion test
CheckPermissionNoValidate(distributorName, region) ==
    /\ call' = [NoCall EXCEPT !.op = "CheckPermission", !.name = distributorName,
                              !.region = region]
    /\ UNCHANGED distributors
    /\ IF distributorName \notin DOMAIN distributors
       THEN result' = Result(ErrUnknownDistributor, FALSE, FALSE)
       ELSE result' = Result(ErrNone,
                             HasPermission(distributors, distributorName, region), TRUE)

\* DistributionSystem.CheckPermission
CheckPermission(distributorName, region) ==
    /\ call' = [NoCall EXCEPT !.op = "CheckPermission", !.name = distributorName,
                              !.region = region]
    /\ UNCHANGED distributors
    /\ IF distributorName \notin DOMAIN distributors
       THEN result' = Result(ErrUnknownDistributor, FALSE, FALSE)
       ELSE IF ~ValidateRegion(region)
       THEN result' = Result(ErrUnknownRegion, FALSE, FALSE)
       ELSE result' = Result(ErrNone,
                             HasPermission(distributors, distributorName, region), TRUE)

CallAddDistributor ==
    \E name \in NameInputs, parentName \in ParentInputs : AddDistributor(name, parentName)

CallAddPermission ==
    \E name \in NameInputs, region \in RuleRegions, isInclude \in BOOLEAN :
        AddPermission(name, region, isInclude)

CallCheckPermission ==
    \E name \in NameInputs, region \in CheckRegions : CheckPermission(name, region)

Next == CallAddDistributor \/ CallAddPermission \/ CallCheckPermission

Spec == Init /\ [][Next]_vars

(***************************************************************************)
(* isSubregion on its own: every candidate of 1..MaxCandLen segments and   *)
(* every pattern of 0..MaxPatLen segments over two segment values.         *)
(***************************************************************************)
Segments == {NY, US}

SeqsOf(S, lo, hi) == UNION {[1..n -> S] : n \in lo..hi}

Candidates == SeqsOf(Segments, 1, MaxCandLen)

Patterns == SeqsOf(Segments, 0, MaxPatLen)

SubregionCall(region1, region2) ==
    [NoCall EXCEPT !.op = "isSubregion", !.region1 = region1, !.region2 = region2]

InitSub ==
    /\ distributors = <<>>
    /\ \E region1 \in Candidates, region2 \in Patterns :
           /\ call = SubregionCall(region1, region2)
           /\ result = Result(ErrNone, isSubregion(region1, region2), FALSE)

CallIsSubregion ==
    \E region1 \in Candidates, region2 \in Patterns :
        /\ call' = SubregionCall(region1, region2)
        /\ result' = Result(ErrNone, isSubregion(region1, region2), FALSE)
        /\ UNCHANGED distributors

NextSub == CallIsSubregion

SpecSub == InitSub /\ [][NextSub]_vars

(***************************************************************************)
(* Properties.                                                             *)
(***************************************************************************)
Registered == DOMAIN distributors

ParentOf(d) == distributors[d].Parent

\* some rule of the set contains region r
Contains(rules, r) ==
    \E pattern \in rules : isSubregion(Split(r, HYPHEN), Split(pattern, HYPHEN))

\* d's own rules admit r: an include rule contains it and no exclude rule does
OwnRulesAdmit(d, r) ==
    /\ Contains(distributors[d].Includes, r)
    /\ ~Contains(distributors[d].Excludes, r)

\* C1: a distributor that has a parent is authorized for a region only if its
\* parent is authorized for that region.
C1_ChildWithinParent ==
    \A d \in Registered : \A r \in QueryRegions :
        (ParentOf(d) # NIL /\ HasPermission(distributors, d, r))
            => HasPermission(distributors, ParentOf(d), r)

\* a child is authorized for some region, and the parent has since been
\* changed so that it denies a code the child still includes
C1_Witness ==
    \E d \in Registered :
        /\ ParentOf(d) # NIL
        /\ \E r \in QueryRegions : HasPermission(distributors, d, r)
        /\ \E r \in QueryRegions :
               /\ OwnRulesAdmit(d, r)
               /\ ~HasPermission(distributors, ParentOf(d), r)
               /\ ~HasPermission(distributors, d, r)

\* C2: HasPermission(D, r) is true exactly when no exclude rule of D contains
\* r, some include rule of D contains r, and D has no parent or its parent is
\* authorized for r; a root whose only rule is include "US" authorizes
\* "CA-US", "NY-US" and "NYC-NY-US" and not "FR".
C2_HasPermissionCharacterised ==
    /\ \A d \in Registered : \A r \in QueryRegions :
           HasPermission(distributors, d, r)
               <=> /\ ~Contains(distributors[d].Excludes, r)
                   /\ Contains(distributors[d].Includes, r)
                   /\ (ParentOf(d) = NIL \/ HasPermission(distributors, ParentOf(d), r))
    /\ \A d \in Registered :
           (ParentOf(d) = NIL /\ distributors[d].Includes = {US}
                /\ distributors[d].Excludes = {})
               => /\ HasPermission(distributors, d, Sprintf2(CA, US))
                  /\ HasPermission(distributors, d, Sprintf2(NY, US))
                  /\ HasPermission(distributors, d, Sprintf3(NYC, NY, US))
                  /\ ~HasPermission(distributors, d, FR)

\* a root whose only rule is include "US", with a child that has no include
\* rule at all while the root authorizes "CA-US"
C2_Witness ==
    \E d \in Registered, c \in Registered :
        /\ ParentOf(d) = NIL
        /\ distributors[d].Includes = {US}
        /\ distributors[d].Excludes = {}
        /\ ParentOf(c) = d
        /\ distributors[c].Includes = {}
        /\ HasPermission(distributors, d, Sprintf2(CA, US))
        /\ ~HasPermission(distributors, c, Sprintf2(CA, US))

\* C3: when an exclude rule of D contains r, HasPermission(D, r) is false,
\* whatever D includes and whatever its ancestors authorize.
C3_ExcludeWins ==
    \A d \in Registered : \A r \in QueryRegions :
        Contains(distributors[d].Excludes, r) => ~HasPermission(distributors, d, r)

\* a child holds the same code in both sets and its parent authorizes the code
C3_Witness ==
    \E d \in Registered : \E r \in distributors[d].Includes :
        /\ r \in distributors[d].Excludes
        /\ ParentOf(d) # NIL
        /\ HasPermission(distributors, ParentOf(d), r)
        /\ ~HasPermission(distributors, d, r)

\* the last call was AddPermission on a registered distributor with a code of
\* the catalog, so that Distributor.AddPermission ran
ReachedDistributorAddPermission ==
    /\ call'.op = "AddPermission"
    /\ call'.name \in Registered
    /\ ValidateRegion(call'.region)

\* C4: adding an include rule to a distributor with a parent succeeds and
\* inserts the code exactly when the parent is authorized for it at the call,
\* and is refused with the parent-denial error otherwise; on a root it always
\* succeeds.  A child of a root that includes "US" is refused "FR" and granted
\* "CA-US".
C4_IncludeNeedsParent ==
    [][(ReachedDistributorAddPermission /\ call'.isInclude) =>
          LET d == call'.name
              r == call'.region
              inserted ==
                  /\ result'.err = ErrNone
                  /\ distributors'[d].Includes = distributors[d].Includes \cup {r}
              refused ==
                  /\ result'.err = ErrParentDenial
                  /\ distributors'[d].Includes = distributors[d].Includes
          IN /\ IF ParentOf(d) = NIL \/ HasPermission(distributors, ParentOf(d), r)
                THEN inserted
                ELSE refused
             /\ (/\ ParentOf(d) # NIL
                 /\ ParentOf(ParentOf(d)) = NIL
                 /\ distributors[ParentOf(d)].Includes = {US}
                 /\ distributors[ParentOf(d)].Excludes = {})
                    => /\ r = FR => refused
                       /\ r = Sprintf2(CA, US) => inserted
      ]_vars

\* a child of a root that includes "US" has just been refused include "FR"
\* and holds "CA-US", granted earlier
C4_Witness ==
    /\ call.op = "AddPermission"
    /\ call.isInclude
    /\ call.region = FR
    /\ result.err = ErrParentDenial
    /\ call.name \in Registered
    /\ ParentOf(call.name) # NIL
    /\ distributors[ParentOf(call.name)].Includes = {US}
    /\ Sprintf2(CA, US) \in distributors[call.name].Includes

\* C5 as stated: adding an exclude rule to a distributor with a parent
\* succeeds and inserts the code whether or not the parent is authorized.
C5_ExcludeUnchecked ==
    (/\ call.op = "AddPermission"
     /\ ~call.isInclude
     /\ call.name \in Registered
     /\ ValidateRegion(call.region)
     /\ ParentOf(call.name) # NIL)
        => /\ result.err = ErrNone
           /\ call.region \in distributors[call.name].Excludes

\* C5 amended: the parent check applies to exclude rules as to include rules:
\* adding an exclude rule to a distributor with a parent succeeds and inserts
\* the code exactly when the parent is authorized for it at the call, and is
\* refused with the parent-denial error, nothing inserted, otherwise; on a
\* root it always succeeds.
C5_ExcludeNeedsParent ==
    [][(ReachedDistributorAddPermission /\ ~call'.isInclude) =>
          LET d == call'.name
              r == call'.region
          IN IF ParentOf(d) = NIL \/ HasPermission(distributors, ParentOf(d), r)
             THEN /\ result'.err = ErrNone
                  /\ distributors'[d].Excludes = distributors[d].Excludes \cup {r}
             ELSE /\ result'.err = ErrParentDenial
                  /\ distributors'[d].Excludes = distributors[d].Excludes
      ]_vars

\* a child has just been refused an exclude rule its parent is not authorized
\* for, and holds another exclude rule, granted while the parent was
C5_Witness ==
    /\ call.op = "AddPermission"
    /\ ~call.isInclude
    /\ result.err = ErrParentDenial
    /\ call.name \in Registered
    /\ ParentOf(call.name) # NIL
    /\ call.region \notin distributors[call.name].Excludes
    /\ distributors[call.name].Excludes # {}

\* C6: a call that returns an error leaves the graph as it was, and a
\* successful AddPermission adds the given code to the targeted rule set of
\* the targeted distributor and changes nothing else.
C6_ErrorsChangeNothing ==
    [][/\ result'.err # ErrNone => distributors' = distributors
       /\ (call'.op = "AddPermission" /\ result'.err = ErrNone) =>
              LET d == call'.name
                  r == call'.region
              IN /\ DOMAIN distributors' = DOMAIN distributors
                 /\ \A o \in DOMAIN distributors \ {d} : distributors'[o] = distributors[o]
                 /\ distributors'[d].Name = distributors[d].Name
                 /\ distributors'[d].Parent = distributors[d].Parent
                 /\ IF call'.isInclude
                    THEN /\ distributors'[d].Includes = distributors[d].Includes \cup {r}
                         /\ distributors'[d].Excludes = distributors[d].Excludes
                    ELSE /\ distributors'[d].Excludes = distributors[d].Excludes \cup {r}
                         /\ distributors'[d].Includes = distributors[d].Includes
      ]_vars

\* an AddPermission has just been refused by the parent on a graph that
\* already stores rules
C6_Witness ==
    /\ call.op = "AddPermission"
    /\ result.err = ErrParentDenial
    /\ TotalRules(distributors, Registered) >= 2

\* C7: AddDistributor fails with the duplicate error when the name is
\* registered, else with the unknown-parent error when the parent name is not
\* empty and not registered, and else registers the name with empty rule sets
\* under the named parent, or under no parent when the parent name is empty.
C7_AddDistributorContract ==
    [][call'.op = "AddDistributor" =>
          LET n == call'.name
              p == call'.parentName
          IN IF n \in Registered
             THEN result'.err = ErrDuplicate
             ELSE IF p # "" /\ p \notin Registered
             THEN result'.err = ErrUnknownParent
             ELSE /\ result'.err = ErrNone
                  /\ DOMAIN distributors' = Registered \cup {n}
                  /\ distributors'[n].Name = n
                  /\ distributors'[n].Includes = {}
                  /\ distributors'[n].Excludes = {}
                  /\ distributors'[n].Parent = (IF p = "" THEN NIL ELSE p)
      ]_vars

\* a registered name has just been refused as a duplicate in a call that also
\* named a parent nobody registered
C7_Witness ==
    /\ call.op = "AddDistributor"
    /\ result.err = ErrDuplicate
    /\ call.parentName # ""
    /\ call.parentName \notin Registered

\* C8 as stated: CheckPermission with a code the catalog does not have
\* returns the unknown-region error without evaluating HasPermission, for
\* every distributor name, registered or not.
C8_UnknownRegionAlways ==
    (call.op = "CheckPermission" /\ ~ValidateRegion(call.region))
        => (result.err = ErrUnknownRegion /\ ~result.evaluated)

\* C8 amended: CheckPermission with a code the catalog does not have never
\* evaluates HasPermission; it returns the unknown-region error when the
\* distributor name is registered and the unknown-distributor error when it
\* is not.
C8_UnknownRegionIfRegistered ==
    (call.op = "CheckPermission" /\ ~ValidateRegion(call.region))
        => /\ ~result.evaluated
           /\ result.err = (IF call.name \in Registered
                            THEN ErrUnknownRegion
                            ELSE ErrUnknownDistributor)

\* a registered distributor that holds rules has just been asked about a code
\* the catalog does not have
C8_Witness ==
    /\ call.op = "CheckPermission"
    /\ ~ValidateRegion(call.region)
    /\ call.name \in Registered
    /\ distributors[call.name].Includes # {}
    /\ result.err = ErrUnknownRegion

\* the containment test as the design states it
SubregionReference(c, p) ==
    CASE Len(p) = 1 -> c[Len(c)] = p[1]
      [] Len(p) = 2 -> Len(c) >= 2 /\ SubSeq(c, Len(c) - 1, Len(c)) = p
      [] Len(p) = 3 -> c = p
      [] OTHER -> FALSE

\* C9: isSubregion(c, p) is the last segment of c equal to p for a pattern of
\* one segment, the last two segments of c equal to p for one of two, c equal
\* to p for one of three, false for any other pattern; a candidate with fewer
\* segments than the pattern is never inside it.
C9_IsSubregionReference ==
    call.op = "isSubregion" =>
        /\ result.value = SubregionReference(call.region1, call.region2)
        /\ Len(call.region1) < Len(call.region2) => ~result.value

\* a city candidate found inside a province pattern
C9_Witness ==
    /\ call.op = "isSubregion"
    /\ Len(call.region1) = 3
    /\ Len(call.region2) = 2
    /\ result.value

\* the parent links followed from d end at a root within fuel steps, through
\* registered distributors only
RECURSIVE ReachesRoot(_, _)
ReachesRoot(d, fuel) ==
    IF d = NIL THEN TRUE
    ELSE IF fuel = 0 \/ d \notin Registered THEN FALSE
    ELSE ReachesRoot(ParentOf(d), fuel - 1)

\* the distributors met on the parent links above d, within fuel steps
RECURSIVE Ancestors(_, _)
Ancestors(d, fuel) ==
    IF fuel = 0 \/ d \notin Registered \/ ParentOf(d) = NIL THEN {}
    ELSE {ParentOf(d)} \cup Ancestors(ParentOf(d), fuel - 1)

Forest ==
    \A d \in Registered :
        /\ ParentOf(d) = NIL \/ ParentOf(d) \in Registered
        /\ d \notin Ancestors(d, Cardinality(Registered))
        /\ ReachesRoot(d, Cardinality(Registered))

\* a registration links to a parent registered before it, and no link changes
ParentRegisteredFirst ==
    /\ Registered \subseteq DOMAIN distributors'
    /\ \A d \in Registered : distributors'[d].Parent = ParentOf(d)
    /\ \A d \in DOMAIN distributors' \ Registered :
           distributors'[d].Parent = NIL \/ distributors'[d].Parent \in Registered

\* C10: the parent links form a forest: every parent is a registered
\* distributor that was registered before its child, no distributor is its own
\* ancestor, and the links followed from any distributor end at a root.
C10_ParentLinksFormForest == []Forest /\ [][ParentRegisteredFirst]_vars

\* three distributors in one chain of parent links
C10_Witness ==
    \E d \in Registered :
        /\ ParentOf(d) # NIL
        /\ ParentOf(ParentOf(d)) # NIL
        /\ ReachesRoot(d, 3)

\* C11 as stated: every code in the include set of a distributor that has a
\* parent is authorized by that parent in the current state.
C11_StoredIncludesAuthorized ==
    \A d \in Registered :
        ParentOf(d) # NIL =>
            \A code \in distributors[d].Includes :
                HasPermission(distributors, ParentOf(d), code)

\* a code that enters the include set of a distributor with a parent is
\* authorized by the parent in the state the call is made in
IncludeAuthorizedWhenAdded ==
    \A d \in Registered :
        ParentOf(d) # NIL =>
            \A code \in distributors'[d].Includes \ distributors[d].Includes :
                HasPermission(distributors, ParentOf(d), code)

\* a stored include code the parent does not authorize gives the child no
\* authorization for that code
StaleIncludeGrantsNothing ==
    \A d \in Registered :
        ParentOf(d) # NIL =>
            \A code \in distributors[d].Includes :
                ~HasPermission(distributors, ParentOf(d), code)
                    => ~HasPermission(distributors, d, code)

\* C11 amended: every code in the include set of a distributor that has a
\* parent was authorized by that parent when it was added; the parent may stop
\* authorizing it later, the code stays stored, and the child is then not
\* authorized for it either.
C11_IncludesAuthorizedWhenAdded ==
    []StaleIncludeGrantsNothing /\ [][IncludeAuthorizedWhenAdded]_vars

\* a child still stores an include code that its parent, changed since, no
\* longer authorizes
C11_Witness ==
    \E d \in Registered :
        /\ ParentOf(d) # NIL
        /\ distributors[ParentOf(d)].Excludes # {}
        /\ \E code \in distributors[d].Includes :
               /\ Contains(distributors[ParentOf(d)].Includes, code)
               /\ ~HasPermission(distributors, ParentOf(d), code)
               /\ ~HasPermission(distributors, d, code)

====
